---- MODULE Spec2Model ----
(***************************************************************************)
(* Booking core of the doctor-appointment backend (Express + PostgreSQL).  *)
(*                                                                         *)
(* The durable store is PostgreSQL at its default isolation level, READ    *)
(* COMMITTED: a plain SELECT reads committed rows, an UPDATE or a SELECT   *)
(* ... FOR UPDATE takes the row's lock and waits while another transaction *)
(* holds it, then decides on the row as last committed; the writes of a    *)
(* transaction become visible to the others at COMMIT, all at once, and    *)
(* ROLLBACK discards them.  Every SQL statement of a handler is one step.  *)
(* `slots` and `appointments` are the committed tables; the uncommitted    *)
(* writes of a transaction are determined by the handler's position.       *)
(***************************************************************************)
EXTENDS Integers, FiniteSets, TLC

\* ---------------------------------------------------------------- bounds
NumSlots == 2       \* rows of table slots; id NumSlots + 1 is a missing slot
MaxAppts == 3       \* values the appointments id sequence hands out
MaxTime == 3        \* the clock runs 0 .. MaxTime, in minutes
MaxCalls == 4       \* requests the server accepts
MaxSweepErrors == 1 \* failed runs of the sweeper
NumClients == 2     \* concurrent request handlers
NumBookers == 3     \* concurrent book calls on one slot (SpecBook)

\* ------------------------------------------------------ program constants
Grace == 2          \* INTERVAL '2 minutes'

SlotIds == 1 .. NumSlots
SlotArgs == 1 .. (NumSlots + 1)
ApptIds == 1 .. MaxAppts
Clients == 1 .. NumClients
Bookers == 1 .. NumBookers
Procs == Clients \cup Bookers
None == -1

\* HTTP statuses of the responses
Created == 201
Ok == 200
ValidationFailed == 400
NotFound == 404
Conflict == 409
ServerError == 500
NoResponse == 0

Active == {"PENDING", "CONFIRMED"}

VARIABLES
    slots,          \* slots[s]: committed is_booked of slot s
    appointments,   \* committed rows of table appointments, by id
    nextId,         \* next value of the SERIAL sequence of appointments.id
    now,            \* the database clock
    calls,          \* requests accepted so far
    pc,             \* pc[p]: position of handler p
    op,             \* op[p]: p's last request: "book", "confirm", "cancel"
    arg,            \* arg[p]: slot_id of a book, :id of a confirm or cancel
    valid,          \* valid[p]: the book body carries every required field
    slot,           \* slot[p]: is_booked as read by book under the row lock
    appointment,    \* appointment[p]: status of the row as read by cancel
    txTime,         \* txTime[p]: start of p's transaction (CURRENT_TIMESTAMP)
    newId,          \* newId[p]: id of the row book inserted
    result,         \* result[p]: HTTP status of p's last response
    slotLock,       \* slotLock[s]: holder of the row lock of slot s
    apptLock,       \* apptLock[a]: holder of the row lock of appointment a
    sweepErrors     \* runs of the sweeper that ended in its catch (console.error)

vars == <<slots, appointments, nextId, now, calls, pc, op, arg, valid, slot,
          appointment, txTime, newId, result, slotLock, apptLock, sweepErrors>>

store == <<slots, appointments>>
locks == <<slotLock, apptLock>>
locals == <<op, arg, valid, slot, appointment, txTime, newId>>

Exists(a) == a \in DOMAIN appointments

Row(s, t) ==
    [slot_id |-> s, status |-> "PENDING", booking_time |-> t,
     confirmation_time |-> None]

\* ------------------------------------------------------------------ Init
Init ==
    /\ slots = [s \in SlotIds |-> FALSE]
    /\ appointments = << >>
    /\ nextId = 1
    /\ now = 0
    /\ calls = 0
    /\ pc = [p \in Procs |-> "idle"]
    /\ op = [p \in Procs |-> "none"]
    /\ arg = [p \in Procs |-> None]
    /\ valid = [p \in Procs |-> TRUE]
    /\ slot = [p \in Procs |-> FALSE]
    /\ appointment = [p \in Procs |-> "none"]
    /\ txTime = [p \in Procs |-> 0]
    /\ newId = [p \in Procs |-> None]
    /\ result = [p \in Procs |-> NoResponse]
    /\ slotLock = [s \in SlotIds |-> None]
    /\ apptLock = [a \in ApptIds |-> None]
    /\ sweepErrors = 0

\* a request reaches its handler (book and cancel call pool.connect())
Request(p, o, a, v) ==
    /\ pc[p] \in {"idle", "done"}
    /\ calls' = calls + 1
    /\ pc' = [pc EXCEPT ![p] = o]
    /\ op' = [op EXCEPT ![p] = o]
    /\ arg' = [arg EXCEPT ![p] = a]
    /\ valid' = [valid EXCEPT ![p] = v]
    /\ result' = [result EXCEPT ![p] = NoResponse]
    /\ UNCHANGED <<store, nextId, now, slot, appointment, txTime, newId, locks,
                   sweepErrors>>

\* the server accepts MaxCalls requests
Enter(p, o, a, v) == calls < MaxCalls /\ Request(p, o, a, v)

\* res.status(code).json(...); the handler returns, its locals are gone; the
\* request stays on record with its response
Respond(p, code) ==
    /\ pc' = [pc EXCEPT ![p] = "done"]
    /\ result' = [result EXCEPT ![p] = code]
    /\ UNCHANGED <<op, arg>>
    /\ valid' = [valid EXCEPT ![p] = TRUE]
    /\ slot' = [slot EXCEPT ![p] = FALSE]
    /\ appointment' = [appointment EXCEPT ![p] = "none"]
    /\ txTime' = [txTime EXCEPT ![p] = 0]
    /\ newId' = [newId EXCEPT ![p] = None]

\* COMMIT or ROLLBACK releases the row locks of the transaction
Release(p) ==
    /\ slotLock' = [s \in SlotIds |-> IF slotLock[s] = p THEN None ELSE slotLock[s]]
    /\ apptLock' = [a \in ApptIds |-> IF apptLock[a] = p THEN None ELSE apptLock[a]]

\* ------------------------------------------------------------------ book
BookRequest(p, s, v) == Enter(p, "book", s, v)

\* if (!slot_id || !patient_name || ...) return res.status(400)
BookInvalid(p) ==
    /\ pc[p] = "book"
    /\ ~valid[p]
    /\ Respond(p, ValidationFailed)
    /\ UNCHANGED <<store, nextId, now, calls, sweepErrors, locks>>

\* variant: BEGIN ahead of the validation of the body
BookBegin_Unvalidated(p) ==
    /\ pc[p] = "book"
    /\ pc' = [pc EXCEPT ![p] = "book_begun"]
    /\ txTime' = [txTime EXCEPT ![p] = now]
    /\ UNCHANGED <<store, nextId, now, calls, sweepErrors, op, arg, valid, slot, appointment, newId, result, locks>>

\* await client.query('BEGIN')
BookBegin(p) ==
    /\ pc[p] = "book"
    /\ valid[p]
    /\ pc' = [pc EXCEPT ![p] = "book_begun"]
    /\ txTime' = [txTime EXCEPT ![p] = now]
    /\ UNCHANGED <<store, nextId, now, calls, sweepErrors, op, arg, valid, slot, appointment, newId, result, locks>>

\* variant: the missing slot answered like a booked one, 409
BookNotFound_Conflict(p) ==
    /\ pc[p] = "book_begun"
    /\ arg[p] \notin SlotIds
    /\ Respond(p, Conflict)
    /\ UNCHANGED <<store, nextId, now, calls, sweepErrors, locks>>

\* SELECT * FROM slots WHERE id = $1 FOR UPDATE finds no row: ROLLBACK, 404
BookNotFound(p) ==
    /\ pc[p] = "book_begun"
    /\ arg[p] \notin SlotIds
    /\ Respond(p, NotFound)
    /\ UNCHANGED <<store, nextId, now, calls, sweepErrors, locks>>

\* variant: the SELECT without FOR UPDATE, which neither waits nor locks
BookLock_NoLock(p) ==
    /\ pc[p] = "book_begun"
    /\ arg[p] \in SlotIds
    /\ slot' = [slot EXCEPT ![p] = slots[arg[p]]]
    /\ pc' = [pc EXCEPT ![p] = "book_locked"]
    /\ UNCHANGED <<store, nextId, now, calls, sweepErrors, op, arg, valid, appointment, txTime, newId, result, locks>>

\* variant: LOCK TABLE slots ahead of the SELECT, which waits for every row
BookLock_TableLock(p) ==
    /\ pc[p] = "book_begun"
    /\ arg[p] \in SlotIds
    /\ \A s \in SlotIds : slotLock[s] = None
    /\ slotLock' = [slotLock EXCEPT ![arg[p]] = p]
    /\ slot' = [slot EXCEPT ![p] = slots[arg[p]]]
    /\ pc' = [pc EXCEPT ![p] = "book_locked"]
    /\ UNCHANGED <<store, nextId, now, calls, sweepErrors, op, arg, valid, appointment, txTime, newId, result, apptLock>>

\* SELECT * FROM slots WHERE id = $1 FOR UPDATE: waits for the row lock, then
\* reads the row as committed
BookLock(p) ==
    /\ pc[p] = "book_begun"
    /\ arg[p] \in SlotIds
    /\ slotLock[arg[p]] = None
    /\ slotLock' = [slotLock EXCEPT ![arg[p]] = p]
    /\ slot' = [slot EXCEPT ![p] = slots[arg[p]]]
    /\ pc' = [pc EXCEPT ![p] = "book_locked"]
    /\ UNCHANGED <<store, nextId, now, calls, sweepErrors, op, arg, valid, appointment, txTime, newId, result, apptLock>>

\* variant: return res.status(409) without the ROLLBACK
BookConflict_NoRollback(p) ==
    /\ pc[p] = "book_locked"
    /\ slot[p]
    /\ Respond(p, Conflict)
    /\ UNCHANGED <<store, nextId, now, calls, sweepErrors, locks>>

\* if (slot.is_booked) { ROLLBACK; return res.status(409) }
BookConflict(p) ==
    /\ pc[p] = "book_locked"
    /\ slot[p]
    /\ Release(p)
    /\ Respond(p, Conflict)
    /\ UNCHANGED <<store, nextId, now, calls, sweepErrors>>

\* variant: the INSERT issued outside the transaction (pool.query), committed
\* as the statement ends
BookInsert_Autocommit(p) ==
    /\ pc[p] = "book_locked"
    /\ ~slot[p]
    /\ nextId <= MaxAppts
    /\ newId' = [newId EXCEPT ![p] = nextId]
    /\ nextId' = nextId + 1
    /\ appointments' = (nextId :> Row(arg[p], now)) @@ appointments
    /\ pc' = [pc EXCEPT ![p] = "book_inserted"]
    /\ UNCHANGED <<slots, now, calls, sweepErrors, op, arg, valid, slot, appointment, txTime, result, locks>>

\* INSERT INTO appointments (...) VALUES (..., 'PENDING') RETURNING *
BookInsert(p) ==
    /\ pc[p] = "book_locked"
    /\ ~slot[p]
    /\ nextId <= MaxAppts
    /\ newId' = [newId EXCEPT ![p] = nextId]
    /\ nextId' = nextId + 1
    /\ pc' = [pc EXCEPT ![p] = "book_inserted"]
    /\ UNCHANGED <<store, now, calls, sweepErrors, op, arg, valid, slot, appointment, txTime, result, locks>>

\* UPDATE slots SET is_booked = TRUE WHERE id = $1
BookUpdateSlot(p) ==
    /\ pc[p] = "book_inserted"
    /\ pc' = [pc EXCEPT ![p] = "book_updated"]
    /\ UNCHANGED <<store, nextId, now, calls, sweepErrors, locals, result, locks>>

\* COMMIT; res.status(201)
BookCommit(p) ==
    /\ pc[p] = "book_updated"
    /\ appointments' = (newId[p] :> Row(arg[p], txTime[p])) @@ appointments
    /\ slots' = [slots EXCEPT ![arg[p]] = TRUE]
    /\ Release(p)
    /\ Respond(p, Created)
    /\ UNCHANGED <<nextId, now, calls, sweepErrors>>

\* a statement of the transaction throws: catch { ROLLBACK; res.status(500) }
BookFail(p) ==
    /\ \/ pc[p] \in {"book_begun", "book_locked", "book_inserted", "book_updated"}
       \/ pc[p] = "book" /\ valid[p]
    /\ Release(p)
    /\ Respond(p, ServerError)
    /\ UNCHANGED <<store, nextId, now, calls, sweepErrors>>

\* --------------------------------------------------------------- confirm
ConfirmRequest(p, a) == Enter(p, "confirm", a, TRUE)

\* variant: SET status = 'CONFIRMED' alone, confirmation_time left out
ConfirmUpdate_NoTime(p) ==
    /\ pc[p] = "confirm"
    /\ Exists(arg[p])
    /\ appointments[arg[p]].status = "PENDING"
    /\ apptLock[arg[p]] = None
    /\ appointments' = [appointments EXCEPT ![arg[p]].status = "CONFIRMED"]
    /\ Respond(p, Ok)
    /\ UNCHANGED <<slots, nextId, now, calls, sweepErrors, locks>>

\* variant: WHERE id = $1 alone, the status guard left out
ConfirmUpdate_NoGuard(p) ==
    /\ pc[p] = "confirm"
    /\ Exists(arg[p])
    /\ apptLock[arg[p]] = None
    /\ appointments' = [appointments EXCEPT
                          ![arg[p]].status = "CONFIRMED",
                          ![arg[p]].confirmation_time = now]
    /\ Respond(p, Ok)
    /\ UNCHANGED <<slots, nextId, now, calls, sweepErrors, locks>>

\* variant: the UPDATE not waiting for the row lock
ConfirmUpdate_NoWait(p) ==
    /\ pc[p] = "confirm"
    /\ Exists(arg[p])
    /\ appointments[arg[p]].status = "PENDING"
    /\ appointments' = [appointments EXCEPT
                          ![arg[p]].status = "CONFIRMED",
                          ![arg[p]].confirmation_time = now]
    /\ Respond(p, Ok)
    /\ UNCHANGED <<slots, nextId, now, calls, sweepErrors, locks>>

\* UPDATE appointments SET status = 'CONFIRMED', confirmation_time = NOW()
\* WHERE id = $1 AND status = 'PENDING' RETURNING *   -- one row: res.json
\* The statement waits for the row lock and decides on the committed row.
ConfirmUpdate(p) ==
    /\ pc[p] = "confirm"
    /\ Exists(arg[p])
    /\ appointments[arg[p]].status = "PENDING"
    /\ apptLock[arg[p]] = None
    /\ appointments' = [appointments EXCEPT
                          ![arg[p]].status = "CONFIRMED",
                          ![arg[p]].confirmation_time = now]
    /\ Respond(p, Ok)
    /\ UNCHANGED <<slots, nextId, now, calls, sweepErrors, locks>>

\* the UPDATE matches no row: if (result.rows.length === 0) res.status(404)
ConfirmNotFound(p) ==
    /\ pc[p] = "confirm"
    /\ ~(Exists(arg[p]) /\ appointments[arg[p]].status = "PENDING")
    /\ Respond(p, NotFound)
    /\ UNCHANGED <<store, nextId, now, calls, sweepErrors, locks>>

\* pool.query throws: catch { res.status(500) }
ConfirmFail(p) ==
    /\ pc[p] = "confirm"
    /\ Respond(p, ServerError)
    /\ UNCHANGED <<store, nextId, now, calls, sweepErrors, locks>>

\* ---------------------------------------------------------------- cancel
CancelRequest(p, a) == Enter(p, "cancel", a, TRUE)

\* variant: the empty result not looked at, the two UPDATEs match no row, 200
CancelNotFound_Success(p) ==
    /\ pc[p] = "cancel"
    /\ ~Exists(arg[p])
    /\ Respond(p, Ok)
    /\ UNCHANGED <<store, nextId, now, calls, sweepErrors, locks>>

\* BEGIN; SELECT * FROM appointments WHERE id = $1 finds no row: ROLLBACK, 404
CancelNotFound(p) ==
    /\ pc[p] = "cancel"
    /\ ~Exists(arg[p])
    /\ Respond(p, NotFound)
    /\ UNCHANGED <<store, nextId, now, calls, sweepErrors, locks>>

\* BEGIN; SELECT * FROM appointments WHERE id = $1 (no lock): the row as
\* committed; its status is not looked at afterwards, its slot_id never changes
CancelSelect(p) ==
    /\ pc[p] = "cancel"
    /\ Exists(arg[p])
    /\ pc' = [pc EXCEPT ![p] = "cancel_selected"]
    /\ appointment' = [appointment EXCEPT ![p] = appointments[arg[p]].status]
    /\ UNCHANGED <<store, nextId, now, calls, sweepErrors, op, arg, valid, slot, txTime, newId,
                   result, locks>>

\* variant: the UPDATE issued outside the transaction (pool.query), committed
\* as the statement ends
CancelUpdateAppointment_Autocommit(p) ==
    /\ pc[p] = "cancel_selected"
    /\ apptLock[arg[p]] = None
    /\ appointments' = [appointments EXCEPT ![arg[p]].status = "CANCELLED"]
    /\ pc' = [pc EXCEPT ![p] = "cancel_updated"]
    /\ UNCHANGED <<slots, nextId, now, calls, sweepErrors, locals, result, locks>>

\* UPDATE appointments SET status = 'CANCELLED' WHERE id = $1
CancelUpdateAppointment(p) ==
    /\ pc[p] = "cancel_selected"
    /\ apptLock[arg[p]] = None
    /\ apptLock' = [apptLock EXCEPT ![arg[p]] = p]
    /\ pc' = [pc EXCEPT ![p] = "cancel_updated"]
    /\ UNCHANGED <<store, nextId, now, calls, sweepErrors, locals, result, slotLock>>

\* UPDATE slots SET is_booked = FALSE WHERE id = $1  (appointment.slot_id)
CancelReleaseSlot(p) ==
    /\ pc[p] = "cancel_updated"
    /\ slotLock[appointments[arg[p]].slot_id] = None
    /\ slotLock' = [slotLock EXCEPT ![appointments[arg[p]].slot_id] = p]
    /\ pc' = [pc EXCEPT ![p] = "cancel_released"]
    /\ UNCHANGED <<store, nextId, now, calls, sweepErrors, locals, result, apptLock>>

\* variant: the cancelled appointment is put back to 'PENDING'
CancelCommit_ToPending(p) ==
    /\ pc[p] = "cancel_released"
    /\ appointments' = [appointments EXCEPT ![arg[p]].status = "PENDING"]
    /\ slots' = [slots EXCEPT ![appointments[arg[p]].slot_id] = FALSE]
    /\ Release(p)
    /\ Respond(p, Ok)
    /\ UNCHANGED <<nextId, now, calls, sweepErrors>>

\* variant: SET status = 'CANCELLED', confirmation_time = NULL
CancelCommit_ClearTime(p) ==
    /\ pc[p] = "cancel_released"
    /\ appointments' = [appointments EXCEPT ![arg[p]].status = "CANCELLED",
                                            ![arg[p]].confirmation_time = None]
    /\ slots' = [slots EXCEPT ![appointments[arg[p]].slot_id] = FALSE]
    /\ Release(p)
    /\ Respond(p, Ok)
    /\ UNCHANGED <<nextId, now, calls, sweepErrors>>

\* variant: the transaction without the UPDATE of slots
CancelCommit_KeepSlot(p) ==
    /\ pc[p] = "cancel_released"
    /\ appointments' = [appointments EXCEPT ![arg[p]].status = "CANCELLED"]
    /\ Release(p)
    /\ Respond(p, Ok)
    /\ UNCHANGED <<slots, nextId, now, calls, sweepErrors>>

\* COMMIT; res.json({ success: true })
CancelCommit(p) ==
    /\ pc[p] = "cancel_released"
    /\ appointments' = [appointments EXCEPT ![arg[p]].status = "CANCELLED"]
    /\ slots' = [slots EXCEPT ![appointments[arg[p]].slot_id] = FALSE]
    /\ Release(p)
    /\ Respond(p, Ok)
    /\ UNCHANGED <<nextId, now, calls, sweepErrors>>

\* a statement of the transaction throws: catch { ROLLBACK; res.status(500) }
CancelFail(p) ==
    /\ pc[p] \in {"cancel", "cancel_selected", "cancel_updated", "cancel_released"}
    /\ Release(p)
    /\ Respond(p, ServerError)
    /\ UNCHANGED <<store, nextId, now, calls, sweepErrors>>

\* ------------------------------------------------- expiry (setInterval)
\* variant: WHERE booking_time < NOW() - INTERVAL '2 minutes' alone, the
\* status guard left out
Expired_NoStatus(a) ==
    appointments[a].booking_time < now - Grace

\* variant: booking_time <= NOW() - INTERVAL '2 minutes'
Expired_Inclusive(a) ==
    /\ appointments[a].status = "PENDING"
    /\ appointments[a].booking_time <= now - Grace

\* variant: the comparison turned round, booking_time > NOW() - INTERVAL ...
Expired_Reversed(a) ==
    /\ appointments[a].status = "PENDING"
    /\ appointments[a].booking_time > now - Grace

\* WHERE status = 'PENDING' AND booking_time < NOW() - INTERVAL '2 minutes'
Expired(a) ==
    /\ appointments[a].status = "PENDING"
    /\ appointments[a].booking_time < now - Grace

ExpiredAppointments == {a \in DOMAIN appointments : Expired(a)}

ExpiredSlots == {appointments[a].slot_id : a \in ExpiredAppointments}

\* variant: the UPDATE of appointments alone, the slots not released
Sweep_KeepSlots ==
    /\ \A a \in ExpiredAppointments : apptLock[a] = None
    /\ appointments' = [a \in DOMAIN appointments |->
                          IF a \in ExpiredAppointments
                            THEN [appointments[a] EXCEPT !.status = "FAILED"]
                            ELSE appointments[a]]
    /\ UNCHANGED <<slots, nextId, now, calls, sweepErrors, pc, locals, result, locks>>

\* variant: the slots released, the status of the appointments left as it is
Sweep_KeepStatus ==
    /\ \A a \in ExpiredAppointments : apptLock[a] = None
    /\ \A s \in ExpiredSlots : slotLock[s] = None
    /\ slots' = [s \in SlotIds |-> IF s \in ExpiredSlots THEN FALSE ELSE slots[s]]
    /\ UNCHANGED <<appointments, nextId, now, calls, sweepErrors, pc, locals, result, locks>>

\* variant: DELETE FROM appointments for the expired rows
Sweep_Delete ==
    /\ \A a \in ExpiredAppointments : apptLock[a] = None
    /\ \A s \in ExpiredSlots : slotLock[s] = None
    /\ appointments' = [a \in DOMAIN appointments \ ExpiredAppointments |->
                          appointments[a]]
    /\ slots' = [s \in SlotIds |-> IF s \in ExpiredSlots THEN FALSE ELSE slots[s]]
    /\ UNCHANGED <<nextId, now, calls, sweepErrors, pc, locals, result, locks>>

\* variant: one expired appointment a run (a LIMIT 1 in the CTE)
Sweep_OneRow ==
    /\ ExpiredAppointments # {}
    /\ LET a == CHOOSE x \in ExpiredAppointments :
                    \A y \in ExpiredAppointments : x <= y
       IN /\ apptLock[a] = None
          /\ slotLock[appointments[a].slot_id] = None
          /\ appointments' = [appointments EXCEPT ![a].status = "FAILED"]
          /\ slots' = [slots EXCEPT ![appointments[a].slot_id] = FALSE]
    /\ UNCHANGED <<nextId, now, calls, sweepErrors, pc, locals, result, locks>>

\* WITH expired_appointments AS (UPDATE appointments SET status = 'FAILED'
\* WHERE ... RETURNING slot_id) UPDATE slots SET is_booked = FALSE WHERE id IN
\* (SELECT slot_id FROM expired_appointments): one statement, committed as it
\* ends; it waits for the locks of the rows it updates
Sweep ==
    /\ \A a \in ExpiredAppointments : apptLock[a] = None
    /\ \A s \in ExpiredSlots : slotLock[s] = None
    /\ appointments' = [a \in DOMAIN appointments |->
                          IF a \in ExpiredAppointments
                            THEN [appointments[a] EXCEPT !.status = "FAILED"]
                            ELSE appointments[a]]
    /\ slots' = [s \in SlotIds |-> IF s \in ExpiredSlots THEN FALSE ELSE slots[s]]
    /\ UNCHANGED <<nextId, now, calls, sweepErrors, pc, locals, result, locks>>

\* ----------------------------------------------------------------- clock
Tick ==
    /\ now < MaxTime
    /\ now' = now + 1
    /\ UNCHANGED <<store, nextId, calls, sweepErrors, pc, locals, result, locks>>

Next ==
    \/ \E p \in Clients :
        \/ \E s \in SlotArgs, v \in BOOLEAN : BookRequest(p, s, v)
        \/ BookInvalid(p)
        \/ BookBegin(p)
        \/ BookNotFound(p)
        \/ BookLock(p)
        \/ BookConflict(p)
        \/ BookInsert(p)
        \/ BookUpdateSlot(p)
        \/ BookCommit(p)
        \/ BookFail(p)
        \/ \E a \in ApptIds : ConfirmRequest(p, a)
        \/ ConfirmUpdate(p)
        \/ ConfirmNotFound(p)
        \/ ConfirmFail(p)
        \/ \E a \in ApptIds : CancelRequest(p, a)
        \/ CancelNotFound(p)
        \/ CancelSelect(p)
        \/ CancelUpdateAppointment(p)
        \/ CancelReleaseSlot(p)
        \/ CancelCommit(p)
        \/ CancelFail(p)
    \/ Sweep
    \/ Tick

Spec == Init /\ [][Next]_vars

\* ------------------------------------------- book calls alone, on one slot
TargetSlot == 1

NextBook ==
    \/ \E p \in Bookers :
        \/ (pc[p] = "idle" /\ BookRequest(p, TargetSlot, TRUE))
        \/ BookBegin(p)
        \/ BookLock(p)
        \/ BookConflict(p)
        \/ BookInsert(p)
        \/ BookUpdateSlot(p)
        \/ BookCommit(p)
    \/ Tick

SpecBook == Init /\ [][NextBook]_vars

\* ================================================================ claims
ActiveOn(s) ==
    {a \in DOMAIN appointments :
        appointments[a].slot_id = s /\ appointments[a].status \in Active}

On(s) == {a \in DOMAIN appointments : appointments[a].slot_id = s}

\* p takes a step of its handler
Steps(p) == pc'[p] # pc[p]

\* p takes the step that answers its request
Answers(p) == pc[p] # "done" /\ pc'[p] = "done"

BookPcs == {"book", "book_begun", "book_locked", "book_inserted", "book_updated"}
CancelPcs == {"cancel", "cancel_selected", "cancel_updated", "cancel_released"}

\* C1: when book calls are issued concurrently against one free slot and
\* nothing else runs, then once all of them have returned exactly one got 201
\* and every other one 409, the slot is booked and exactly one appointment on
\* it exists, PENDING.
Returned == {p \in Bookers : pc[p] = "done"}

C1_ExactlyOneBookSucceeds ==
    ((\A p \in Bookers : pc[p] \in {"idle", "done"}) /\ Returned # {}) =>
        /\ Cardinality({p \in Returned : result[p] = Created}) = 1
        /\ \A p \in Returned : result[p] \in {Created, Conflict}
        /\ slots[TargetSlot]
        /\ Cardinality(On(TargetSlot)) = 1
        /\ \A a \in On(TargetSlot) : appointments[a].status = "PENDING"

C1_Witness ==
    /\ \A p \in Bookers : pc[p] = "done"
    /\ Cardinality({p \in Bookers : result[p] = Conflict}) = NumBookers - 1

\* C2: in every committed state a slot is booked exactly when some
\* appointment on it is PENDING or CONFIRMED.
C2_BookedIffActive ==
    \A s \in SlotIds : slots[s] <=> (ActiveOn(s) # {})

\* C3: in every committed state at most one appointment on a slot is PENDING
\* or CONFIRMED.
C3_AtMostOneActive ==
    \A s \in SlotIds : Cardinality(ActiveOn(s)) <= 1

\* C4: book commits both of its writes or neither.  The step of a book that
\* answers 201 adds exactly one appointment, PENDING and on the requested
\* slot, sets that slot's flag and changes nothing else in the tables; every
\* other step of a book, the answers 400, 404, 409 and 500 (a failing BEGIN,
\* SELECT, INSERT, UPDATE or COMMIT) included, leaves the tables as they are.
C4_BookAllOrNothing ==
    [][\A p \in Clients :
         (pc[p] \in BookPcs /\ Steps(p)) =>
            IF result'[p] = Created
              THEN /\ \E id \in ApptIds \ DOMAIN appointments :
                        /\ DOMAIN appointments' = DOMAIN appointments \cup {id}
                        /\ appointments'[id].status = "PENDING"
                        /\ appointments'[id].slot_id = arg[p]
                   /\ \A a \in DOMAIN appointments :
                        appointments'[a] = appointments[a]
                   /\ slots' = [slots EXCEPT ![arg[p]] = TRUE]
              ELSE /\ appointments' = appointments
                   /\ slots' = slots]_vars

\* a book was rolled back after its INSERT (its id is used up, its row is not
\* there), and another book has committed
C4_Witness ==
    /\ \E p \in Clients : op[p] = "book" /\ result[p] = ServerError
    /\ \E p \in Clients : op[p] = "book" /\ result[p] = Created
    /\ \A p \in Clients : pc[p] = "done"
    /\ Cardinality(DOMAIN appointments) < nextId - 1
    /\ appointments # << >>

\* C5: cancel of a PENDING or CONFIRMED appointment is one atomic step on the
\* committed tables: the step that makes the appointment CANCELLED is the
\* step that frees its slot, and a step of that cancel that changes the
\* slot's flag is the step that makes the appointment CANCELLED.
C5_CancelAtomic ==
    [][\A a \in DOMAIN appointments :
         appointments[a].status \in Active =>
            /\ appointments'[a].status = "CANCELLED" =>
                  ~slots'[appointments[a].slot_id]
            /\ \A p \in Clients :
                  (pc[p] \in CancelPcs /\ arg[p] = a /\ Steps(p)
                     /\ slots'[appointments[a].slot_id]
                          # slots[appointments[a].slot_id]) =>
                  appointments'[a].status = "CANCELLED"]_vars

\* a cancel has answered 200 for an appointment that had been confirmed; the
\* appointment is CANCELLED and its slot is free
C5_Witness ==
    \E p \in Clients :
        /\ op[p] = "cancel" /\ result[p] = Ok
        /\ appointments[arg[p]].status = "CANCELLED"
        /\ appointments[arg[p]].confirmation_time # None
        /\ ~slots[appointments[arg[p]].slot_id]

\* C6: a cancel that finds its appointment CANCELLED or FAILED changes neither
\* an appointment nor a slot.
C6_CancelOnlyFromActive ==
    [][\A p \in Clients :
         (pc[p] \in CancelPcs /\ Steps(p)
            /\ appointment[p] \in {"CANCELLED", "FAILED"}) =>
         (appointments' = appointments /\ slots' = slots)]_vars

\* C7: every change of a status is PENDING -> CONFIRMED by confirm, PENDING ->
\* CANCELLED or CONFIRMED -> CANCELLED by cancel, or PENDING -> FAILED by the
\* sweeper; CANCELLED and FAILED are final.
C7_LegalTransitions ==
    [][\A a \in DOMAIN appointments :
         appointments'[a].status # appointments[a].status =>
            \/ /\ appointments[a].status = "PENDING"
               /\ appointments'[a].status = "CONFIRMED"
               /\ \E p \in Clients : op[p] = "confirm" /\ arg[p] = a /\ Answers(p)
            \/ /\ appointments[a].status \in Active
               /\ appointments'[a].status = "CANCELLED"
               /\ \E p \in Clients : op[p] = "cancel" /\ arg[p] = a /\ Answers(p)
            \/ /\ appointments[a].status = "PENDING"
               /\ appointments'[a].status = "FAILED"
               /\ pc' = pc]_vars

\* C8: no step sets the status of an existing appointment to PENDING, and no
\* step removes an appointment: a row is PENDING from its insertion until its
\* first transition and never again.
C8_NeverBackToPending ==
    [][\A a \in DOMAIN appointments :
         /\ a \in DOMAIN appointments'
         /\ appointments[a].status # "PENDING" =>
               appointments'[a].status # "PENDING"]_vars

\* an appointment that was confirmed and then cancelled, beside a later
\* PENDING appointment on the same slot
C8_Witness ==
    \E a, b \in DOMAIN appointments :
        /\ a < b
        /\ appointments[a].slot_id = appointments[b].slot_id
        /\ appointments[a].status = "CANCELLED"
        /\ appointments[a].confirmation_time # None
        /\ appointments[b].status = "PENDING"

\* C9: the step of a confirm whose appointment is PENDING that answers the
\* request answers 200, sets the status to CONFIRMED and the confirmation
\* time to the time of the statement, and changes no other field, appointment
\* or slot flag; when the statement throws instead, the answer is 500 and
\* nothing changes.
C9_ConfirmPending ==
    [][\A p \in Clients :
         (pc[p] = "confirm" /\ Steps(p) /\ Exists(arg[p])
            /\ appointments[arg[p]].status = "PENDING") =>
         /\ slots' = slots
         /\ \/ /\ result'[p] = Ok
               /\ appointments' =
                     [appointments EXCEPT ![arg[p]].status = "CONFIRMED",
                                          ![arg[p]].confirmation_time = now]
            \/ /\ result'[p] = ServerError
               /\ appointments' = appointments]_vars

\* a confirm has answered 200: its appointment is CONFIRMED with a
\* confirmation time, the slot is still booked, and another appointment and
\* another slot exist beside them
C9_Witness ==
    \E p \in Clients :
        /\ op[p] = "confirm" /\ result[p] = Ok
        /\ appointments[arg[p]].status = "CONFIRMED"
        /\ appointments[arg[p]].confirmation_time = now
        /\ now > 0
        /\ slots[appointments[arg[p]].slot_id]
        /\ \E b \in DOMAIN appointments :
              /\ appointments[b].slot_id # appointments[arg[p]].slot_id
              /\ appointments[b].status = "PENDING"

\* C10: the step of a confirm whose id is missing or whose appointment is
\* CONFIRMED, CANCELLED or FAILED changes no appointment and no slot, and
\* its answer is 404 (500 when the statement throws).
C10_ConfirmNotPending ==
    [][\A p \in Clients :
         (pc[p] = "confirm" /\ Steps(p)
            /\ ~(Exists(arg[p]) /\ appointments[arg[p]].status = "PENDING")) =>
         /\ appointments' = appointments
         /\ slots' = slots
         /\ result'[p] \in {NotFound, ServerError}]_vars

\* confirm has answered 404 twice: for an id that is missing and for an
\* appointment that is not PENDING
C10_Witness ==
    \E p, q \in Clients :
        /\ op[p] = "confirm" /\ result[p] = NotFound /\ ~Exists(arg[p])
        /\ op[q] = "confirm" /\ result[q] = NotFound /\ Exists(arg[q])
        /\ appointments[arg[q]].status \in {"CONFIRMED", "CANCELLED", "FAILED"}

\* ------------------------------------------------------ the expiry sweeper
\* a is PENDING and its age exceeds the grace window
Stale(a) ==
    /\ appointments[a].status = "PENDING"
    /\ now - appointments[a].booking_time > Grace

StaleSlots == {appointments[a].slot_id : a \in {b \in DOMAIN appointments : Stale(b)}}

\* a step of the sweeper's statement: no handler moves, the clock stands
Sweeps == pc' = pc /\ now' = now

\* C11: a sweep and a confirm on one expired PENDING appointment: one of them
\* takes effect.  The step that makes it CONFIRMED is the answer 200 of a
\* confirm on it and leaves every slot flag as it was; the step that makes it
\* FAILED is the sweeper's and frees its slot.  Afterwards the sweeper leaves a
\* CONFIRMED appointment as it is, a confirm on a FAILED appointment answers
\* 404 (500 if the statement throws) and changes nothing, and an appointment
\* whose confirm answered 200 is never FAILED.
C11_SweepOrConfirm ==
    [][/\ \A a \in DOMAIN appointments : Stale(a) =>
            /\ appointments'[a].status = "CONFIRMED" =>
                  /\ slots' = slots
                  /\ \E p \in Clients :
                        pc[p] = "confirm" /\ arg[p] = a /\ result'[p] = Ok
            /\ appointments'[a].status = "FAILED" =>
                  /\ ~slots'[appointments[a].slot_id]
                  /\ pc' = pc
       /\ \A a \in DOMAIN appointments :
            appointments[a].status = "CONFIRMED" =>
                /\ appointments'[a].status # "FAILED"
                /\ Sweeps => appointments'[a] = appointments[a]
       /\ \A p \in Clients :
            (pc[p] = "confirm" /\ Steps(p) /\ Exists(arg[p])
               /\ appointments[arg[p]].status = "FAILED") =>
                /\ result'[p] \in {NotFound, ServerError}
                /\ appointments' = appointments /\ slots' = slots
       /\ \A p \in Clients :
            (pc'[p] = "done" /\ op'[p] = "confirm" /\ result'[p] = Ok) =>
                appointments'[arg'[p]].status # "FAILED"]_vars

\* past the grace window one appointment was confirmed, with its slot still
\* booked, and another was failed by the sweeper, its slot freed, and the
\* confirm on it answered 404
C11_Witness ==
    \E p, q \in Clients :
        /\ op[p] = "confirm" /\ result[p] = Ok
        /\ appointments[arg[p]].status = "CONFIRMED"
        /\ appointments[arg[p]].confirmation_time
              - appointments[arg[p]].booking_time > Grace
        /\ slots[appointments[arg[p]].slot_id]
        /\ op[q] = "confirm" /\ result[q] = NotFound /\ Exists(arg[q])
        /\ appointments[arg[q]].status = "FAILED"
        /\ ~slots[appointments[arg[q]].slot_id]

\* C12: a run of the sweeper leaves every appointment that was PENDING with a
\* booking time more than the grace window in the past FAILED, and the flag
\* of its slot false.
C12_SweepExpires ==
    [][Sweeps =>
         \A a \in DOMAIN appointments : Stale(a) =>
            /\ appointments'[a].status = "FAILED"
            /\ ~slots'[appointments[a].slot_id]]_vars

\* two appointments were failed past the grace window, their two slots are
\* free
C12_Witness ==
    \E a, b \in DOMAIN appointments :
        /\ appointments[a].slot_id # appointments[b].slot_id
        /\ appointments[a].status = "FAILED"
        /\ appointments[b].status = "FAILED"
        /\ now - appointments[a].booking_time > Grace
        /\ now - appointments[b].booking_time > Grace
        /\ ~slots[appointments[a].slot_id]
        /\ ~slots[appointments[b].slot_id]

\* C13: a run of the sweeper changes the status of the expired PENDING
\* appointments and the flags of their slots and nothing else: no appointment
\* appears or goes, every other appointment and every other field stays,
\* every other slot flag stays, no lock and no handler is touched; with no
\* expired appointment the run changes nothing.
C13_SweepFrame ==
    [][Sweeps =>
         /\ DOMAIN appointments' = DOMAIN appointments
         /\ \A a \in DOMAIN appointments :
               IF Stale(a)
                 THEN appointments'[a] = [appointments[a] EXCEPT !.status = "FAILED"]
                 ELSE appointments'[a] = appointments[a]
         /\ \A s \in SlotIds \ StaleSlots : slots'[s] = slots[s]
         /\ UNCHANGED <<nextId, calls, locals, result, locks>>]_vars

\* the sweeper has failed one appointment and left alone a PENDING one whose
\* age is the grace window exactly, with its slot booked
C13_Witness ==
    \E a, b \in DOMAIN appointments :
        /\ appointments[a].status = "FAILED"
        /\ ~slots[appointments[a].slot_id]
        /\ appointments[b].status = "PENDING"
        /\ now - appointments[b].booking_time = Grace
        /\ slots[appointments[b].slot_id]

\* C14: after a run of the sweeper no appointment is PENDING with a booking
\* time more than the grace window in the past: a second run at the same
\* time selects nothing, and (C13) a run that selects nothing changes nothing.
C14_SweepIdempotent ==
    [][Sweeps =>
         /\ \A a \in DOMAIN appointments' : ~Stale(a)'
         /\ StaleSlots' = {}]_vars

\* after a run that failed an appointment a CONFIRMED appointment is as old
\* and has kept its slot
C14_Witness ==
    \E a, b \in DOMAIN appointments :
        /\ appointments[a].status = "FAILED"
        /\ ~slots[appointments[a].slot_id]
        /\ appointments[b].status = "CONFIRMED"
        /\ appointments[b].booking_time = appointments[a].booking_time
        /\ slots[appointments[b].slot_id]

\* ------------------------------------------------------- fair scheduling
\* the next statement of handler p returns (every statement is awaited, the
\* event loop resumes the handler); a failure of the storage is not owed
Proceed(p) ==
    \/ BookInvalid(p) \/ BookBegin(p) \/ BookNotFound(p) \/ BookLock(p)
    \/ BookConflict(p) \/ BookInsert(p) \/ BookUpdateSlot(p) \/ BookCommit(p)
    \/ ConfirmUpdate(p) \/ ConfirmNotFound(p)
    \/ CancelNotFound(p) \/ CancelSelect(p) \/ CancelUpdateAppointment(p)
    \/ CancelReleaseSlot(p) \/ CancelCommit(p)

\* book, confirm and cancel calls about one slot, against a storage that does
\* not fail
NextLive ==
    \/ \E p \in Clients :
        \/ BookRequest(p, TargetSlot, TRUE)
        \/ BookBegin(p)
        \/ BookLock(p)
        \/ BookConflict(p)
        \/ BookInsert(p)
        \/ BookUpdateSlot(p)
        \/ BookCommit(p)
        \/ \E a \in ApptIds : ConfirmRequest(p, a)
        \/ ConfirmUpdate(p)
        \/ ConfirmNotFound(p)
        \/ \E a \in ApptIds : CancelRequest(p, a)
        \/ CancelNotFound(p)
        \/ CancelSelect(p)
        \/ CancelUpdateAppointment(p)
        \/ CancelReleaseSlot(p)
        \/ CancelCommit(p)
    \/ Sweep
    \/ Tick

\* time passes, setInterval keeps firing the sweeper every minute, and every
\* handler goes on
SpecLive ==
    /\ Init /\ [][NextLive]_vars
    /\ WF_vars(Tick)
    /\ WF_vars(Sweep)
    /\ \A p \in Clients : WF_vars(Proceed(p))

\* C15: an appointment that is PENDING (and booked early enough for its
\* expiry to lie within the clock's range) is eventually CONFIRMED or
\* CANCELLED by a call, or FAILED with the flag of its slot false.
C15_EventuallyReclaimed ==
    \A a \in ApptIds :
        (Exists(a) /\ appointments[a].status = "PENDING"
            /\ appointments[a].booking_time + Grace < MaxTime)
        ~> (/\ Exists(a)
            /\ \/ appointments[a].status \in {"CONFIRMED", "CANCELLED"}
               \/ /\ appointments[a].status = "FAILED"
                  /\ ~slots[appointments[a].slot_id])

\* an abandoned booking was failed by the sweeper and, after that, a book on
\* the same slot answered 201 with a new PENDING appointment
C15_Witness ==
    \E a, b \in DOMAIN appointments :
        /\ appointments[a].slot_id = appointments[b].slot_id
        /\ appointments[a].status = "FAILED"
        /\ appointments[a].confirmation_time = None
        /\ appointments[b].status = "PENDING"
        /\ appointments[b].booking_time > appointments[a].booking_time + Grace
        /\ slots[appointments[b].slot_id]
        /\ \E p \in Clients :
              op[p] = "book" /\ result[p] = Created /\ arg[p] = appointments[b].slot_id

Quiet == \A p \in Clients : pc[p] \in {"idle", "done"}

FirstAppt == 1

\* Two clients book TargetSlot at the same time; once both have their answer
\* the appointment made is confirmed and then cancelled, or cancelled as it
\* is; after the cancel the slot is booked once more.  All of it happens
\* within the grace window, where the sweeper selects nothing, and the
\* storage does not fail.
NextReuse ==
    \/ \E p \in Clients :
        \/ pc[p] = "idle" /\ Request(p, "book", TargetSlot, TRUE)
        \/ /\ \A q \in Clients : pc[q] = "done"
           /\ Exists(FirstAppt)
           /\ \/ /\ appointments[FirstAppt].status = "PENDING"
                 /\ Request(p, "confirm", FirstAppt, TRUE)
              \/ /\ appointments[FirstAppt].status \in Active
                 /\ Request(p, "cancel", FirstAppt, TRUE)
              \/ /\ appointments[FirstAppt].status = "CANCELLED"
                 /\ nextId = FirstAppt + 1
                 /\ Request(p, "book", TargetSlot, TRUE)
        \/ BookBegin(p)
        \/ BookLock(p)
        \/ BookConflict(p)
        \/ BookInsert(p)
        \/ BookUpdateSlot(p)
        \/ BookCommit(p)
        \/ ConfirmUpdate(p)
        \/ CancelSelect(p)
        \/ CancelUpdateAppointment(p)
        \/ CancelReleaseSlot(p)
        \/ CancelCommit(p)
    \/ now < Grace /\ Tick

SpecReuse == Init /\ [][NextReuse]_vars

\* C17: in the run book(S), book(S) at the same time, [confirm(A1),]
\* cancel(A1), book(S): of the two books one answers 201 and the other 409;
\* the confirm answers 200 and A1 is CONFIRMED; the cancel answers 200, A1 is
\* CANCELLED and S is free until it is booked again; the book after the
\* cancel answers 201 with a new PENDING appointment on S, and S is booked.
C17_ReuseAfterCancel ==
    /\ \A p \in Clients : pc[p] = "done" =>
          /\ op[p] = "book" => result[p] \in {Created, Conflict}
          /\ op[p] = "confirm" =>
                /\ result[p] = Ok
                /\ appointments[FirstAppt].status \in {"CONFIRMED", "CANCELLED"}
                /\ appointments[FirstAppt].confirmation_time # None
          /\ op[p] = "cancel" =>
                /\ result[p] = Ok
                /\ appointments[FirstAppt].status = "CANCELLED"
                /\ nextId = FirstAppt + 1 => ~slots[TargetSlot]
    /\ ((\A p \in Clients : pc[p] = "done") /\ calls = NumClients) =>
          /\ Cardinality({p \in Clients : result[p] = Created}) = 1
          /\ Cardinality({p \in Clients : result[p] = Conflict}) = NumClients - 1
          /\ appointments[FirstAppt].status = "PENDING"
          /\ slots[TargetSlot]
    /\ (Quiet /\ Exists(FirstAppt) /\ appointments[FirstAppt].status = "CANCELLED") =>
          \/ /\ ~slots[TargetSlot]
             /\ DOMAIN appointments = {FirstAppt}
          \/ /\ slots[TargetSlot]
             /\ DOMAIN appointments = {FirstAppt, FirstAppt + 1}
             /\ appointments[FirstAppt + 1].status = "PENDING"
             /\ appointments[FirstAppt + 1].slot_id = TargetSlot
             /\ \E p \in Clients : op[p] = "book" /\ result[p] = Created

\* the whole run: A1 was confirmed, then cancelled, and the slot is booked
\* again by a book that answered 201
C17_Witness ==
    /\ Quiet
    /\ Exists(FirstAppt) /\ Exists(FirstAppt + 1)
    /\ appointments[FirstAppt].status = "CANCELLED"
    /\ appointments[FirstAppt].confirmation_time # None
    /\ appointments[FirstAppt + 1].status = "PENDING"
    /\ appointments[FirstAppt + 1].slot_id = TargetSlot
    /\ slots[TargetSlot]
    /\ \E p \in Clients : op[p] = "book" /\ result[p] = Created

\* ------------------------------------------------------------ error kinds
\* C18: a book whose slot id names no slot answers 404 at its SELECT, a book
\* that finds its slot booked under the lock answers 409 (each 500 when the
\* statement throws); a 404 is given for a missing slot only and a 409 for
\* an existing booked slot only; neither changes a slot or an appointment.
C18_NotFoundOrConflict ==
    [][\A p \in Clients :
         /\ (pc[p] = "book_begun" /\ Steps(p) /\ arg[p] \notin SlotIds) =>
               result'[p] \in {NotFound, ServerError}
         /\ (pc[p] = "book_locked" /\ Steps(p) /\ slots[arg[p]]) =>
               result'[p] \in {Conflict, ServerError}
         /\ (pc[p] \in BookPcs /\ Steps(p) /\ result'[p] = NotFound) =>
               /\ arg[p] \notin SlotIds
               /\ appointments' = appointments /\ slots' = slots
         /\ (pc[p] \in BookPcs /\ Steps(p) /\ result'[p] = Conflict) =>
               /\ arg[p] \in SlotIds
               /\ slots[arg[p]]
               /\ appointments' = appointments /\ slots' = slots]_vars

\* one book has answered 404 for the slot id past the last slot, another 409
\* for a slot that is booked
C18_Witness ==
    \E p, q \in Clients :
        /\ op[p] = "book" /\ result[p] = NotFound /\ arg[p] = NumSlots + 1
        /\ op[q] = "book" /\ result[q] = Conflict /\ arg[q] \in SlotIds
        /\ slots[arg[q]]
        /\ ActiveOn(arg[q]) # {}

\* C19: a book whose body lacks a field is answered 400 by its first step,
\* with no BEGIN (no transaction time taken), no lock taken, no id drawn
\* from the sequence, and no slot and no appointment changed.
C19_ValidationFirst ==
    [][\A p \in Clients :
         (pc[p] = "book" /\ ~valid[p] /\ Steps(p)) =>
            /\ pc'[p] = "done"
            /\ result'[p] = ValidationFailed
            /\ appointments' = appointments /\ slots' = slots
            /\ UNCHANGED <<nextId, txTime, locks>>]_vars

\* a book has answered 400 for a free slot: the slot is free still, no
\* appointment was made and no id was drawn, though time has passed
C19_Witness ==
    \E p \in Clients :
        /\ op[p] = "book" /\ result[p] = ValidationFailed
        /\ arg[p] \in SlotIds /\ ~slots[arg[p]]
        /\ appointments = << >> /\ nextId = 1
        /\ now > 0

\* C20: a cancel whose id names no appointment answers 404 (500 when BEGIN or
\* the SELECT throws) and changes no appointment and no slot.
C20_CancelMissing ==
    [][\A p \in Clients :
         (pc[p] = "cancel" /\ Steps(p) /\ ~Exists(arg[p])) =>
            /\ result'[p] \in {NotFound, ServerError}
            /\ appointments' = appointments /\ slots' = slots
            /\ UNCHANGED <<nextId, locks>>]_vars

\* a cancel has answered 404 for an id that is not there, beside an
\* appointment that is PENDING with its slot booked
C20_Witness ==
    \E p \in Clients :
        /\ op[p] = "cancel" /\ result[p] = NotFound /\ ~Exists(arg[p])
        /\ \E a \in DOMAIN appointments :
              appointments[a].status = "PENDING" /\ slots[appointments[a].slot_id]

\* ------------------------------------------------------------ the slot lock
BookHolds == {"book_locked", "book_inserted", "book_updated"}

\* C21: a book past its SELECT ... FOR UPDATE holds the lock of its slot, and
\* the flag it decides on is the committed flag of the slot, which no other
\* transaction can change while the lock is held: a book that waited for
\* another book reads TRUE (409) if that one committed and FALSE (it goes on
\* to insert) if that one rolled back; a book that goes on read FALSE.
C21_DecidesUnderLock ==
    \A p \in Clients :
        pc[p] \in BookHolds =>
            /\ slotLock[arg[p]] = p
            /\ slot[p] = slots[arg[p]]
            /\ pc[p] \in {"book_inserted", "book_updated"} => ~slot[p]

\* a book that began before the transaction of the slot's appointment did
\* has got the lock after that transaction committed (its call answered
\* 201), and has read TRUE
C21_Witness ==
    \E p, q \in Clients :
        /\ p # q
        /\ pc[p] = "book_locked" /\ slot[p]
        /\ \E a \in ActiveOn(arg[p]) : appointments[a].booking_time > txTime[p]
        /\ op[q] = "book" /\ result[q] = Created /\ arg[q] = arg[p]

\* the slot the call in handler p is about: the slot of a book, the slot of
\* the appointment of a confirm or cancel
Concerns(p) ==
    IF pc[p] \in BookPcs THEN arg[p]
    ELSE IF pc[p] \in CancelPcs \cup {"confirm"} /\ Exists(arg[p])
           THEN appointments[arg[p]].slot_id
           ELSE None

\* slot s, its lock and the appointments on it are after the step as before
SlotUntouched(s) ==
    /\ slots'[s] = slots[s]
    /\ slotLock'[s] = slotLock[s]
    /\ On(s)' = On(s)
    /\ \A a \in On(s) : appointments'[a] = appointments[a] /\ apptLock'[a] = apptLock[a]

C26_AppendOnly ==
    [][/\ DOMAIN appointments \subseteq DOMAIN appointments'
       /\ DOMAIN slots' = DOMAIN slots
       /\ \A a \in DOMAIN appointments :
             /\ appointments'[a].slot_id = appointments[a].slot_id
             /\ appointments'[a].booking_time = appointments[a].booking_time]_vars

\* three appointments, the first failed by the sweeper, the second cancelled,
\* the third PENDING
C26_Witness ==
    /\ DOMAIN appointments = ApptIds
    /\ \E a, b, c \in ApptIds :
          /\ appointments[a].status = "FAILED"
          /\ appointments[b].status = "CANCELLED"
          /\ appointments[c].status = "PENDING"

\* C27: the flag of the slot of a CONFIRMED appointment goes from true to
\* false only in the step of a cancel, addressed to that appointment, that
\* answers 200.
C27_ConfirmedKeepsSlot ==
    [][\A a \in DOMAIN appointments :
         (appointments[a].status = "CONFIRMED"
            /\ slots[appointments[a].slot_id]
            /\ ~slots'[appointments[a].slot_id]) =>
         \E p \in Clients :
            pc[p] \in CancelPcs /\ arg[p] = a /\ result'[p] = Ok]_vars

\* C29: a confirm and a cancel of one PENDING appointment.  The step of the
\* cancel that answers 200 leaves the appointment CANCELLED and its slot
\* free, and CANCELLED it stays.  While the cancel has its status update
\* behind it and its commit ahead, the confirm waits: it takes no step but
\* a failure, and when it answers 200 no cancel of the appointment is
\* between its update and its commit.  The step of a confirm changes no
\* slot flag, so the appointment is not made CONFIRMED with its slot freed.
C29_ConfirmOrCancel ==
    [][/\ \A p \in Clients :
             (pc[p] \in CancelPcs /\ Steps(p) /\ result'[p] = Ok) =>
                /\ appointments'[arg[p]].status = "CANCELLED"
                /\ ~slots'[appointments[arg[p]].slot_id]
       /\ \A a \in DOMAIN appointments :
             appointments[a].status = "CANCELLED" =>
                appointments'[a].status = "CANCELLED"
       /\ \A p, q \in Clients :
             (pc[p] = "confirm" /\ Steps(p) /\ arg[q] = arg[p]
                /\ pc[q] \in {"cancel_updated", "cancel_released"}) =>
                /\ appointments' = appointments /\ slots' = slots
                /\ IF appointments[arg[p]].status = "PENDING"
                     THEN result'[p] = ServerError
                     ELSE result'[p] \in {NotFound, ServerError}
       /\ \A p \in Clients :
             (pc[p] = "confirm" /\ Steps(p)) => slots' = slots]_vars

\* a cancel has answered 200 and a confirm 404 for one appointment, which is
\* CANCELLED without a confirmation time, its slot free
C29_Witness ==
    \E p, q \in Clients :
        /\ op[p] = "confirm" /\ result[p] = NotFound
        /\ op[q] = "cancel" /\ result[q] = Ok
        /\ arg[p] = arg[q] /\ Exists(arg[p])
        /\ appointments[arg[p]].status = "CANCELLED"
        /\ appointments[arg[p]].confirmation_time = None
        /\ ~slots[appointments[arg[p]].slot_id]

\* C30: an appointment's confirmation time is set by the step that makes it
\* CONFIRMED and by no other, and no step clears or changes it: it is absent
\* while the appointment is PENDING and when it is FAILED, present when it
\* is CONFIRMED, kept by the cancel of a CONFIRMED appointment and absent
\* after the cancel of a PENDING one; it is not earlier than the booking
\* time.
C30_ConfirmationTime ==
    [][\A a \in DOMAIN appointments' :
         /\ appointments'[a].status \in {"PENDING", "FAILED"} =>
               appointments'[a].confirmation_time = None
         /\ appointments'[a].status = "CONFIRMED" =>
               appointments'[a].confirmation_time # None
         /\ appointments'[a].confirmation_time # None =>
               appointments'[a].confirmation_time >= appointments'[a].booking_time
         /\ a \in DOMAIN appointments =>
               IF appointments[a].status = "PENDING"
                    /\ appointments'[a].status = "CONFIRMED"
                 THEN appointments'[a].confirmation_time = now
                 ELSE appointments'[a].confirmation_time
                         = appointments[a].confirmation_time]_vars

\* one appointment was cancelled after its confirmation, later than its
\* booking, and has kept the time; another was failed by the sweeper and has
\* none
C30_Witness ==
    \E a, b \in DOMAIN appointments :
        /\ appointments[a].status = "CANCELLED"
        /\ appointments[a].confirmation_time # None
        /\ appointments[a].confirmation_time > appointments[a].booking_time
        /\ appointments[b].status = "FAILED"
        /\ appointments[b].confirmation_time = None

\* ---------------------------------------------------------------- progress
Busy(p) == pc[p] \notin {"idle", "done"}

Held(p) == {s \in SlotIds : slotLock[s] = p} \cup {a \in ApptIds : apptLock[a] = p}

\* the appointments id sequence is used up to MaxAppts and a book is at its
\* INSERT: where the modelled range of ids ends
OutOfIds == \E q \in Clients : pc[q] = "book_locked" /\ ~slot[q] /\ nextId > MaxAppts

Rejected(p) == \E code \in {NoResponse, ServerError} : Respond(p, code)

\* book: pool.connect() sits before the try block
BookConnectFail(p) ==
    /\ pc[p] = "book"
    /\ Rejected(p)
    /\ UNCHANGED <<store, nextId, now, calls, sweepErrors, locks>>

\* book: a statement throws and the ROLLBACK of the catch block throws too
\* (the connection is gone); the server aborts the transaction of the lost
\* connection, finally releases the client
BookRollbackFail(p) ==
    /\ \/ pc[p] \in {"book_begun", "book_locked", "book_inserted", "book_updated"}
       \/ pc[p] = "book" /\ valid[p]
    /\ Release(p)
    /\ Rejected(p)
    /\ UNCHANGED <<store, nextId, now, calls, sweepErrors>>

\* cancel: pool.connect() sits before the try block
CancelConnectFail(p) ==
    /\ pc[p] = "cancel"
    /\ Rejected(p)
    /\ UNCHANGED <<store, nextId, now, calls, sweepErrors, locks>>

\* cancel: a statement throws and the ROLLBACK of the catch block throws too
CancelRollbackFail(p) ==
    /\ pc[p] \in {"cancel", "cancel_selected", "cancel_updated", "cancel_released"}
    /\ Release(p)
    /\ Rejected(p)
    /\ UNCHANGED <<store, nextId, now, calls, sweepErrors>>

\* variant: the two updates of the sweeper as separate statements, the first
\* of them applied when the second fails
SweepFail_Partial ==
    /\ sweepErrors < MaxSweepErrors
    /\ ExpiredAppointments # {}
    /\ \A a \in ExpiredAppointments : apptLock[a] = None
    /\ sweepErrors' = sweepErrors + 1
    /\ appointments' = [a \in DOMAIN appointments |->
                          IF a \in ExpiredAppointments
                            THEN [appointments[a] EXCEPT !.status = "FAILED"]
                            ELSE appointments[a]]
    /\ UNCHANGED <<slots, nextId, now, calls, pc, locals, result, locks>>

\* the sweeper's statement throws on a run that has rows to expire: the one
\* statement is undone as a whole, the catch block logs the error, and the
\* timer stays armed
SweepFail ==
    /\ sweepErrors < MaxSweepErrors
    /\ ExpiredAppointments # {}
    /\ sweepErrors' = sweepErrors + 1
    /\ UNCHANGED <<store, nextId, now, calls, pc, locals, result, locks>>

\* the calls of NextLive, each of whose statements may fail
NextFail ==
    \/ NextLive
    \/ \E p \in Clients :
        \/ BookFail(p)
        \/ ConfirmFail(p)
        \/ CancelFail(p)
        \/ BookConnectFail(p)
        \/ BookRollbackFail(p)
        \/ CancelConnectFail(p)
        \/ CancelRollbackFail(p)
    \/ SweepFail

SpecFail == Init /\ [][NextFail]_vars

\* C24: every call ends with a response to its caller: no handler ends with
\* its request unanswered.
C24_AlwaysAnswered ==
    \A p \in Clients : pc[p] = "done" => result[p] # NoResponse

\* C23: when a cancel that has written the new status ends without its
\* commit, the tables are as they were before the call (the appointment has
\* its previous status, its slot is still booked), no row lock of the call
\* is left, and the caller is answered with the server error.
C23_CancelRollsBack ==
    [][\A p \in Clients :
         (/\ pc[p] \in {"cancel_updated", "cancel_released"}
          /\ pc'[p] = "done"
          /\ result'[p] # Ok)
         => /\ store' = store
            /\ \A s \in SlotIds : slotLock'[s] # p
            /\ \A a \in ApptIds : apptLock'[a] # p
            /\ result'[p] = ServerError]_vars

\* C25: a run of the sweeper either fails, and then it changes no
\* appointment and no slot and is counted in the log, or it makes FAILED
\* exactly the appointments that are PENDING and past the grace window at
\* that time and frees exactly their slots; after a failed run the sweeper
\* can still run whenever no call holds a row it has to write.
C25_SweeperAbsorbsFailure ==
    /\ []((/\ sweepErrors > 0
           /\ \A a \in ExpiredAppointments : apptLock[a] = None
           /\ \A s \in ExpiredSlots : slotLock[s] = None) => ENABLED Sweep)
    /\ [][Sweeps =>
           \/ /\ sweepErrors' = sweepErrors + 1
              /\ store' = store
           \/ /\ sweepErrors' = sweepErrors
              /\ \A a \in DOMAIN appointments :
                   appointments'[a] =
                     IF Stale(a) THEN [appointments[a] EXCEPT !.status = "FAILED"]
                                 ELSE appointments[a]
              /\ \A s \in SlotIds :
                   slots'[s] = IF s \in StaleSlots THEN FALSE ELSE slots[s]]_vars

\* after a run of the sweeper failed on the expired appointment 1, the only
\* appointment ever booked, a later run has made it FAILED and freed its slot
C25_Witness ==
    /\ sweepErrors = 1
    /\ nextId = 2
    /\ DOMAIN appointments = {1}
    /\ appointments[1].status = "FAILED"
    /\ ~slots[appointments[1].slot_id]

====
